---- MODULE Spec2Model ----
(***************************************************************************)
(* The tool-mediated task store of kkarodia/Task_list.                     *)
(*                                                                         *)
(*   src/mcp_demo_simple.py   SimulatedMCPServer + SimpleTaskManager       *)
(*   src/mcp_task_manager.py  TaskManager over an MCP client session       *)
(*                                                                         *)
(* The task managers keep no state of their own: the only program state is *)
(* the provider's filesystem, whose entry for the tasks file is a text     *)
(* produced by json.dumps(tasks, indent=2) and read back by json.loads.    *)
(* Texts are sequences of characters (one-character strings); a code point *)
(* that is not printable ASCII is written "uXXXX".  Python values carry    *)
(* their type: [t |-> type, v |-> payload].                                *)
(***************************************************************************)
EXTENDS Integers, Sequences, FiniteSets, TLC

VARIABLES
    filesystem,   \* SimulatedMCPServer.filesystem / the files of the MCP server
    outcome,      \* what the last SimpleTaskManager operation reported
    calls,        \* the tool calls that operation issued, in order
    listing,      \* the task lines that operation printed
    coll,         \* the collection given to the last stand-alone _write_tasks
    loaded,       \* what the last stand-alone _read_tasks returned
    session,      \* TaskManager.session is set
    pc,           \* per caller: position inside an awaited TaskManager call
    local,        \* per caller: the tasks list held across the await
    report,       \* per caller: what its last TaskManager call reported
    hist,         \* tool calls of the callers since no call was in flight
    base          \* the persisted collection when hist was last empty

vars == <<filesystem, outcome, calls, listing, coll, loaded, session, pc, local,
          report, hist, base>>

----------------------------------------------------------------------------
(* Python values *)

PyInt(n) == [t |-> "int", v |-> n]
PyStr(cs) == [t |-> "str", v |-> cs]
PyBool(b) == [t |-> "bool", v |-> b]
PyFloat(lex) == [t |-> "float", v |-> lex]
PyNone == [t |-> "none", v |-> 0]
PyList(xs) == [t |-> "list", v |-> xs]
\* a dict keeps insertion order: a sequence of <<key text, value>>, keys distinct
PyDict(ps) == [t |-> "dict", v |-> ps]

K_id == <<"i", "d">>
K_description == <<"d", "e", "s", "c", "r", "i", "p", "t", "i", "o", "n">>
K_priority == <<"p", "r", "i", "o", "r", "i", "t", "y">>
K_completed == <<"c", "o", "m", "p", "l", "e", "t", "e", "d">>

HasKey(d, k) == \E i \in 1..Len(d.v) : d.v[i][1] = k

\* d[k]
Get(d, k) == d.v[CHOOSE i \in 1..Len(d.v) : d.v[i][1] = k][2]

\* d[k] = x : an existing key keeps its place, a new key goes last
DictSet(d, k, x) ==
    IF HasKey(d, k)
    THEN PyDict([i \in 1..Len(d.v) |-> IF d.v[i][1] = k THEN <<k, x>> ELSE d.v[i]])
    ELSE PyDict(Append(d.v, <<k, x>>))

\* bool(x)
Truthy(x) ==
    CASE x.t = "none" -> FALSE
      [] x.t = "bool" -> x.v
      [] x.t = "int" -> x.v # 0
      [] x.t = "float" -> TRUE
      [] OTHER -> Len(x.v) > 0

\* a == b for the scalar types a task field or a task id can have
PyEq(a, b) ==
    CASE a.t \in {"int", "bool"} /\ b.t \in {"int", "bool"} ->
            (IF a.t = "bool" THEN (IF a.v THEN 1 ELSE 0) ELSE a.v)
          = (IF b.t = "bool" THEN (IF b.v THEN 1 ELSE 0) ELSE b.v)
      [] a.t = b.t -> a.v = b.v
      [] OTHER -> FALSE

----------------------------------------------------------------------------
(* json.dumps(obj, indent=2) *)

DigitChars == <<"0", "1", "2", "3", "4", "5", "6", "7", "8", "9">>

RECURSIVE Digits(_)
Digits(n) ==
    IF n < 10 THEN <<DigitChars[n + 1]>>
    ELSE Digits(n \div 10) \o <<DigitChars[(n % 10) + 1]>>

DumpInt(n) == IF n < 0 THEN <<"-">> \o Digits(-n) ELSE Digits(n)

\* code points outside printable ASCII that texts of the model may hold
HexOf(c) ==
    CASE c = "u00e9" -> <<"0", "0", "e", "9">>
      [] c = "u0008" -> <<"0", "0", "0", "8">>
      [] c = "u0001" -> <<"0", "0", "0", "1">>

\* Variant of EscapeChar: the backslash is written as it is
EscapeCharPlainBackslash(c) ==
    CASE c = "\"" -> <<"\\", "\"">>
      [] c = "\n" -> <<"\\", "n">>
      [] c = "\r" -> <<"\\", "r">>
      [] c = "\t" -> <<"\\", "t">>
      [] c = "\f" -> <<"\\", "f">>
      [] c = "u0008" -> <<"\\", "b">>
      [] c \in {"u00e9", "u0001"} -> <<"\\", "u">> \o HexOf(c)
      [] OTHER -> <<c>>

\* json.encoder ESCAPE_ASCII / ESCAPE_DCT (ensure_ascii=True)
EscapeChar(c) ==
    CASE c = "\"" -> <<"\\", "\"">>
      [] c = "\\" -> <<"\\", "\\">>
      [] c = "\n" -> <<"\\", "n">>
      [] c = "\r" -> <<"\\", "r">>
      [] c = "\t" -> <<"\\", "t">>
      [] c = "\f" -> <<"\\", "f">>
      [] c = "u0008" -> <<"\\", "b">>
      [] c \in {"u00e9", "u0001"} -> <<"\\", "u">> \o HexOf(c)
      [] OTHER -> <<c>>

RECURSIVE EscapeStr(_)
EscapeStr(cs) ==
    IF cs = <<>> THEN <<>> ELSE EscapeChar(Head(cs)) \o EscapeStr(Tail(cs))

DumpStr(cs) == <<"\"">> \o EscapeStr(cs) \o <<"\"">>

Indent(level) == [i \in 1..(2 * level) |-> " "]

RECURSIVE DumpVal(_, _), DumpItems(_, _), DumpPairs(_, _)
\* the elements of a non-empty list, each on its own line
DumpItems(xs, level) ==
    IF Len(xs) = 1 THEN DumpVal(xs[1], level)
    ELSE DumpVal(xs[1], level) \o <<",", "\n">> \o Indent(level)
         \o DumpItems(Tail(xs), level)

\* the items of a non-empty dict, in insertion order
DumpPairs(ps, level) ==
    LET one == DumpStr(ps[1][1]) \o <<":", " ">> \o DumpVal(ps[1][2], level)
    IN  IF Len(ps) = 1 THEN one
        ELSE one \o <<",", "\n">> \o Indent(level) \o DumpPairs(Tail(ps), level)

\* obj rendered at nesting depth `level`
DumpVal(x, level) ==
    CASE x.t = "int" -> DumpInt(x.v)
      [] x.t = "bool" -> IF x.v THEN <<"t", "r", "u", "e">>
                         ELSE <<"f", "a", "l", "s", "e">>
      [] x.t = "none" -> <<"n", "u", "l", "l">>
      [] x.t = "str" -> DumpStr(x.v)
      [] x.t = "list" ->
            IF x.v = <<>> THEN <<"[", "]">>
            ELSE <<"[", "\n">> \o Indent(level + 1) \o DumpItems(x.v, level + 1)
                 \o <<"\n">> \o Indent(level) \o <<"]">>
      [] x.t = "dict" ->
            IF x.v = <<>> THEN <<"{", "}">>
            ELSE <<"{", "\n">> \o Indent(level + 1) \o DumpPairs(x.v, level + 1)
                 \o <<"\n">> \o Indent(level) \o <<"}">>

Dumps(x) == DumpVal(x, 0)

----------------------------------------------------------------------------
(* json.loads(text): json.decoder / json.scanner, strict mode *)

Fail(i) == [ok |-> FALSE, val |-> PyNone, pos |-> i]
Ok(x, i) == [ok |-> TRUE, val |-> x, pos |-> i]

Whitespace == {" ", "\t", "\n", "\r"}
HexChars == <<"0", "1", "2", "3", "4", "5", "6", "7", "8", "9",
              "a", "b", "c", "d", "e", "f">>
HexUpper == <<"0", "1", "2", "3", "4", "5", "6", "7", "8", "9",
              "A", "B", "C", "D", "E", "F">>

DigitSet == {DigitChars[d] : d \in 1..10}
HexSet == {HexChars[d] : d \in 1..16} \cup {HexUpper[d] : d \in 1..16}

IsDigit(c) == c \in DigitSet
DigitVal(c) == (CHOOSE d \in 1..10 : DigitChars[d] = c) - 1
IsHex(c) == c \in HexSet
HexVal(c) == (CHOOSE d \in 1..16 : HexChars[d] = c \/ HexUpper[d] = c) - 1

\* the printable ASCII characters, code points 32..126 (the grave accent, 96,
\* is written by its code point)
Ascii == <<
    " ", "!", "\"", "#", "$", "%", "&", "'", "(", ")", "*", "+", ",", "-",
    ".", "/", "0", "1", "2", "3", "4", "5", "6", "7", "8", "9", ":", ";",
    "<", "=", ">", "?", "@", "A", "B", "C", "D", "E", "F", "G", "H", "I",
    "J", "K", "L", "M", "N", "O", "P", "Q", "R", "S", "T", "U", "V", "W",
    "X", "Y", "Z", "[", "\\", "]", "^", "_", "u0060", "a", "b", "c", "d", "e",
    "f", "g", "h", "i", "j", "k", "l", "m", "n", "o", "p", "q", "r", "s",
    "t", "u", "v", "w", "x", "y", "z", "{", "|", "}", "~" >>

\* the character of a \uXXXX escape whose four hex digits are h
CodePoint(h) ==
    LET n == ((HexVal(h[1]) * 16 + HexVal(h[2])) * 16 + HexVal(h[3])) * 16
             + HexVal(h[4])
    IN  CASE n \in 32..126 -> Ascii[n - 31]
          [] n = 9 -> "\t"
          [] n = 10 -> "\n"
          [] n = 12 -> "\f"
          [] n = 13 -> "\r"
          [] OTHER -> "u" \o HexChars[HexVal(h[1]) + 1] \o HexChars[HexVal(h[2]) + 1]
                          \o HexChars[HexVal(h[3]) + 1] \o HexChars[HexVal(h[4]) + 1]

\* code points below 0x20, which a strict JSON string may not hold unescaped
ControlChars ==
    {"\t", "\n", "\f", "\r"}
    \cup {"u00" \o HexChars[a] \o HexChars[b] : a \in 1..2, b \in 1..16}

IsControl(c) == c \in ControlChars

\* json.decoder BACKSLASH
IsSimpleEscape(e) == e \in {"\"", "\\", "/", "b", "f", "n", "r", "t"}
SimpleEscape(e) ==
    CASE e = "b" -> "u0008"
      [] e = "f" -> "\f"
      [] e = "n" -> "\n"
      [] e = "r" -> "\r"
      [] e = "t" -> "\t"
      [] OTHER -> e

MatchAt(s, i, w) == i + Len(w) - 1 <= Len(s) /\ SubSeq(s, i, i + Len(w) - 1) = w

RECURSIVE SkipWs(_, _)
SkipWs(s, i) == IF i <= Len(s) /\ s[i] \in Whitespace THEN SkipWs(s, i + 1) ELSE i

RECURSIVE ScanDigits(_, _)
ScanDigits(s, i) == IF i <= Len(s) /\ IsDigit(s[i]) THEN ScanDigits(s, i + 1) ELSE i

RECURSIVE IntOf(_)
IntOf(ds) ==
    IF ds = <<>> THEN 0
    ELSE IntOf(SubSeq(ds, 1, Len(ds) - 1)) * 10 + DigitVal(ds[Len(ds)])

\* py_scanstring from index i, just after the opening quote (surrogate pairs
\* of \u escapes are not joined: every \uXXXX is one code point)
RECURSIVE ScanString(_, _, _)
ScanString(s, i, acc) ==
    IF i > Len(s) THEN Fail(i)
    ELSE IF s[i] = "\"" THEN Ok(PyStr(acc), i + 1)
    ELSE IF IsControl(s[i]) THEN Fail(i)
    ELSE IF s[i] # "\\" THEN ScanString(s, i + 1, Append(acc, s[i]))
    ELSE IF i + 1 > Len(s) THEN Fail(i)
    ELSE IF s[i + 1] = "u" THEN
        IF i + 5 <= Len(s) /\ \A k \in 2..5 : IsHex(s[i + k])
        THEN ScanString(s, i + 6, Append(acc, CodePoint(SubSeq(s, i + 2, i + 5))))
        ELSE Fail(i)
    ELSE IF IsSimpleEscape(s[i + 1])
         THEN ScanString(s, i + 2, Append(acc, SimpleEscape(s[i + 1])))
         ELSE Fail(i)

\* json.scanner NUMBER_RE: (-?(?:0|[1-9]\d*))(\.\d+)?([eE][-+]?\d+)?
ScanNumber(s, i) ==
    LET j0 == IF s[i] = "-" THEN i + 1 ELSE i
        j1 == IF s[j0] = "0" THEN j0 + 1 ELSE ScanDigits(s, j0)
        j2 == IF j1 + 1 <= Len(s) /\ s[j1] = "." /\ IsDigit(s[j1 + 1])
              THEN ScanDigits(s, j1 + 1) ELSE j1
        k  == IF j2 + 1 <= Len(s) /\ s[j2 + 1] \in {"+", "-"} THEN j2 + 2 ELSE j2 + 1
        j3 == IF j2 <= Len(s) /\ s[j2] \in {"e", "E"} /\ k <= Len(s) /\ IsDigit(s[k])
              THEN ScanDigits(s, k) ELSE j2
    IN  IF j0 > Len(s) \/ ~IsDigit(s[j0]) THEN Fail(i)
        ELSE IF j3 = j1
             THEN Ok(PyInt((IF j0 > i THEN -1 ELSE 1) * IntOf(SubSeq(s, j0, j1 - 1))), j1)
             ELSE Ok(PyFloat(SubSeq(s, i, j3 - 1)), j3)

RECURSIVE ParseValue(_, _), ParseElems(_, _, _), ParseMembers(_, _, _)
\* JSONArray after its first element position: i is where the next value starts
ParseElems(s, i, acc) ==
    LET r == ParseValue(s, i)
        j == SkipWs(s, r.pos)
    IN  IF ~r.ok THEN Fail(i)
        ELSE IF j > Len(s) THEN Fail(j)
        ELSE IF s[j] = "]" THEN Ok(PyList(Append(acc, r.val)), j + 1)
        ELSE IF s[j] = "," THEN ParseElems(s, SkipWs(s, j + 1), Append(acc, r.val))
        ELSE Fail(j)

\* JSONObject: i is where the next key's opening quote must be
ParseMembers(s, i, acc) ==
    LET key == ScanString(s, i + 1, <<>>)
        c   == SkipWs(s, key.pos)
        r   == ParseValue(s, SkipWs(s, c + 1))
        j   == SkipWs(s, r.pos)
        d   == DictSet(acc, key.val.v, r.val)
    IN  IF i > Len(s) \/ s[i] # "\"" THEN Fail(i)
        ELSE IF ~key.ok THEN Fail(i)
        ELSE IF c > Len(s) \/ s[c] # ":" THEN Fail(c)
        ELSE IF ~r.ok THEN Fail(c)
        ELSE IF j > Len(s) THEN Fail(j)
        ELSE IF s[j] = "}" THEN Ok(d, j + 1)
        ELSE IF s[j] = "," THEN ParseMembers(s, SkipWs(s, j + 1), d)
        ELSE Fail(j)

\* json.scanner py_make_scanner._scan_once
ParseValue(s, i) ==
    IF i > Len(s) THEN Fail(i)
    ELSE IF s[i] = "\"" THEN ScanString(s, i + 1, <<>>)
    ELSE IF s[i] = "{" THEN
        LET j == SkipWs(s, i + 1)
        IN  IF j <= Len(s) /\ s[j] = "}" THEN Ok(PyDict(<<>>), j + 1)
            ELSE ParseMembers(s, j, PyDict(<<>>))
    ELSE IF s[i] = "[" THEN
        LET j == SkipWs(s, i + 1)
        IN  IF j <= Len(s) /\ s[j] = "]" THEN Ok(PyList(<<>>), j + 1)
            ELSE ParseElems(s, j, <<>>)
    ELSE IF MatchAt(s, i, <<"n", "u", "l", "l">>) THEN Ok(PyNone, i + 4)
    ELSE IF MatchAt(s, i, <<"t", "r", "u", "e">>) THEN Ok(PyBool(TRUE), i + 4)
    ELSE IF MatchAt(s, i, <<"f", "a", "l", "s", "e">>) THEN Ok(PyBool(FALSE), i + 5)
    ELSE IF s[i] \in DigitSet \cup {"-"} /\ ScanNumber(s, i).ok THEN ScanNumber(s, i)
    ELSE IF MatchAt(s, i, <<"N", "a", "N">>) THEN Ok(PyFloat(SubSeq(s, i, i + 2)), i + 3)
    ELSE IF MatchAt(s, i, <<"I", "n", "f", "i", "n", "i", "t", "y">>)
         THEN Ok(PyFloat(SubSeq(s, i, i + 7)), i + 8)
    ELSE IF MatchAt(s, i, <<"-", "I", "n", "f", "i", "n", "i", "t", "y">>)
         THEN Ok(PyFloat(SubSeq(s, i, i + 8)), i + 9)
    ELSE Fail(i)

\* json.loads(text): JSONDecoder.decode; ok = FALSE is a JSONDecodeError
Loads(s) ==
    LET r == ParseValue(s, SkipWs(s, 1))
    IN  IF r.ok /\ SkipWs(s, r.pos) = Len(s) + 1 THEN r ELSE Fail(r.pos)

----------------------------------------------------------------------------
(* SimulatedMCPServer *)

EmptyListText == <<"[", "]">>

\* Variant of CallTool: reading a path that has no entry creates the entry
CallToolCreating(fs, tool_name, arguments) ==
    CASE tool_name = "read_file" ->
            [fs |-> [p \in DOMAIN fs \cup {arguments.path} |->
                        IF p \in DOMAIN fs THEN fs[p] ELSE <<"[", "]">>],
             result |-> IF arguments.path \in DOMAIN fs
                        THEN [content |-> fs[arguments.path]]
                        ELSE [content |-> <<"[", "]">>]]
      [] tool_name = "write_file" ->
            [fs |-> [p \in DOMAIN fs \cup {arguments.path} |->
                        IF p = arguments.path THEN arguments.content ELSE fs[p]],
             result |-> [success |-> TRUE]]
      [] tool_name = "list_directory" ->
            [fs |-> fs, result |-> [files |-> DOMAIN fs]]
      [] OTHER ->
            [fs |-> fs, result |-> [error |-> "Unknown tool"]]

\* call_tool(tool_name, arguments): the result and the filesystem afterwards
CallTool(fs, tool_name, arguments) ==
    CASE tool_name = "read_file" ->
            [fs |-> fs,
             result |-> IF arguments.path \in DOMAIN fs
                        THEN [content |-> fs[arguments.path]]
                        ELSE [content |-> EmptyListText]]
      [] tool_name = "write_file" ->
            [fs |-> [p \in DOMAIN fs \cup {arguments.path} |->
                        IF p = arguments.path THEN arguments.content ELSE fs[p]],
             result |-> [success |-> TRUE]]
      [] tool_name = "list_directory" ->
            [fs |-> fs, result |-> [files |-> DOMAIN fs]]
      [] OTHER ->
            [fs |-> fs, result |-> [error |-> "Unknown tool"]]

----------------------------------------------------------------------------
(* SimpleTaskManager *)

tasks_file == "tasks.json"

\* the types a for-loop or a comprehension can walk
Iterable(x) == x.t \in {"list", "str", "dict"}
Items(x) ==
    CASE x.t = "list" -> x.v
      [] x.t = "str" -> [i \in 1..Len(x.v) |-> PyStr(<<x.v[i]>>)]
      [] x.t = "dict" -> [i \in 1..Len(x.v) |-> PyStr(x.v[i][1])]

\* task[k] evaluates
Has(task, k) == task.t = "dict" /\ HasKey(task, k)

\* _read_tasks(): the value returned (raised = TRUE when json.loads raises
\* instead), the filesystem afterwards, and the text that was decoded
ReadTasks(fs) ==
    LET called  == CallTool(fs, "read_file", [path |-> tasks_file])
        content == IF "content" \in DOMAIN called.result THEN called.result.content
                   ELSE EmptyListText
        r       == Loads(content)
    IN  [raised |-> ~r.ok, val |-> r.val, fs |-> called.fs,
         response |-> [kind |-> "content", text |-> content]]

\* _write_tasks(tasks): the filesystem afterwards
WriteTasks(fs, tasks) ==
    CallTool(fs, "write_file", [path |-> tasks_file, content |-> Dumps(tasks)]).fs

\* a task record with its four fields in the order add_task writes them
MkTask(id, description, priority, completed) ==
    PyDict(<< <<K_id, PyInt(id)>>,
              <<K_description, PyStr(description)>>,
              <<K_priority, PyStr(priority)>>,
              <<K_completed, PyBool(completed)>> >>)

\* Variant of NewTask: the id is one more than the largest id present
NewTaskAfterLargestId(tasks, description, priority) ==
    LET ids == {Get(tasks.v[i], K_id).v : i \in 1..Len(tasks.v)}
        top == IF ids = {} THEN 0 ELSE CHOOSE n \in ids : \A m \in ids : m <= n
    IN  MkTask(top + 1, description, priority, FALSE)

\* new_task of add_task
NewTask(tasks, description, priority) ==
    PyDict(<< <<K_id, PyInt(Len(tasks.v) + 1)>>,
              <<K_description, PyStr(description)>>,
              <<K_priority, PyStr(priority)>>,
              <<K_completed, PyBool(FALSE)>> >>)

\* Variant of FirstHit: a loop that ends without a match leaves the last task
\* selected
FirstHitOrLast(items, task_id) ==
    LET hit(i) == ~Has(items[i], K_id) \/ PyEq(Get(items[i], K_id), task_id)
    IN  IF \E i \in 1..Len(items) : hit(i)
        THEN CHOOSE i \in 1..Len(items) : hit(i) /\ \A j \in 1..(i - 1) : ~hit(j)
        ELSE Len(items)

\* complete_task's scan: the first position that matches task_id or at which
\* task["id"] raises; 0 when the loop runs to its end
FirstHit(items, task_id) ==
    LET hit(i) == ~Has(items[i], K_id) \/ PyEq(Get(items[i], K_id), task_id)
    IN  IF \E i \in 1..Len(items) : hit(i)
        THEN CHOOSE i \in 1..Len(items) : hit(i) /\ \A j \in 1..(i - 1) : ~hit(j)
        ELSE 0

\* Variant of MarkCompleted: the flag of the task at position i is flipped
MarkCompletedToggled(items, i) ==
    [items EXCEPT ![i] = DictSet(items[i], K_completed,
                                 PyBool(~Truthy(Get(items[i], K_completed))))]

\* Variant of MarkCompleted: every task with the id of the task at position i
\* is completed
MarkCompletedEveryMatch(items, i) ==
    [j \in 1..Len(items) |->
        IF PyEq(Get(items[j], K_id), Get(items[i], K_id))
        THEN DictSet(items[j], K_completed, PyBool(TRUE)) ELSE items[j]]

\* task["completed"] = True on the task at position i
MarkCompleted(items, i) ==
    [items EXCEPT ![i] = DictSet(items[i], K_completed, PyBool(TRUE))]

\* Variant of Without: task_id is taken for a position, and the task at that
\* position (if there is one) is dropped
WithoutPosition(items, task_id) ==
    [j \in 1..(IF task_id.v \in 1..Len(items) THEN Len(items) - 1 ELSE Len(items)) |->
        IF j < task_id.v THEN items[j] ELSE items[j + 1]]

\* [t for t in tasks if t["id"] != task_id]
RECURSIVE Without(_, _)
Without(items, task_id) ==
    IF items = <<>> THEN <<>>
    ELSE IF PyEq(Get(Head(items), K_id), task_id) THEN Without(Tail(items), task_id)
    ELSE <<Head(items)>> \o Without(Tail(items), task_id)

\* priority_emoji of list_tasks
PriorityEmoji(priority) ==
    CASE priority = PyStr(<<"h", "i", "g", "h">>) -> "red"
      [] priority = PyStr(<<"m", "e", "d", "i", "u", "m">>) -> "yellow"
      [] priority = PyStr(<<"l", "o", "w">>) -> "green"
      [] OTHER -> "white"

\* a task's fields can be printed by list_tasks
Printable(task) ==
    /\ Has(task, K_completed) /\ Has(task, K_priority)
    /\ Has(task, K_id) /\ Has(task, K_description)
    /\ Get(task, K_priority).t \notin {"list", "dict"}

\* the line list_tasks prints for a task
TaskLine(task) ==
    [status |-> IF Truthy(Get(task, K_completed)) THEN "done" ELSE "pending",
     id |-> Get(task, K_id),
     emoji |-> PriorityEmoji(Get(task, K_priority)),
     description |-> Get(task, K_description)]

\* the lines printed before the loop ends or a task raises
RECURSIVE TaskLines(_)
TaskLines(items) ==
    IF items = <<>> \/ ~Printable(Head(items)) THEN <<>>
    ELSE <<TaskLine(Head(items))>> \o TaskLines(Tail(items))

\* the call an operation was made with and the message it printed last
Said(op, arg, msg) == [op |-> op, arg |-> arg, msg |-> msg]

\* the number of tasks the model lets a collection grow to
MaxTasks == 2

\* the (description, priority) arguments add_task is called with: the default
\* priority, and a priority list_tasks has no emoji for beside a description
\* that json.dumps must escape
AddArguments ==
    { << <<"a">>, <<"m", "e", "d", "i", "u", "m">> >>,
      << <<"\"", "\\", "n">>, <<"a", "s", "a", "p">> >> }
TaskIds == 1..(MaxTasks + 1)

\* an exception leaves the operation after its read
Raise(op, arg, r) ==
    /\ outcome' = Said(op, arg, "raised")
    /\ calls' = <<"read_file">>
    /\ listing' = <<>>
    /\ filesystem' = r.fs

add_task(description, priority) ==
    \E r \in {ReadTasks(filesystem)} :
        /\ ~r.raised /\ r.val.t = "list" => Len(r.val.v) < MaxTasks
        /\ IF r.raised \/ r.val.t # "list"
           THEN Raise("add_task", <<description, priority>>, r)
           ELSE /\ filesystem' = WriteTasks(r.fs,
                        PyList(Append(r.val.v, NewTask(r.val, description, priority))))
                /\ outcome' = Said("add_task", <<description, priority>>, "added")
                /\ calls' = <<"read_file", "write_file">>
                /\ listing' = <<>>
        /\ UNCHANGED <<coll, loaded, session, pc, local, report, hist, base>>

list_tasks ==
    \E r \in {ReadTasks(filesystem)} :
        /\ IF r.raised THEN Raise("list_tasks", 0, r)
           ELSE IF ~Truthy(r.val)
           THEN /\ outcome' = Said("list_tasks", 0, "no_tasks")
                /\ calls' = <<"read_file">>
                /\ listing' = <<>>
                /\ filesystem' = r.fs
           ELSE \E lines \in {IF Iterable(r.val) THEN TaskLines(Items(r.val))
                              ELSE <<>>} :
                /\ listing' = lines
                /\ outcome' = Said("list_tasks", 0,
                                   IF Iterable(r.val) /\ Len(lines) = Len(Items(r.val))
                                   THEN "listed" ELSE "raised")
                /\ calls' = <<"read_file">>
                /\ filesystem' = r.fs
        /\ UNCHANGED <<coll, loaded, session, pc, local, report, hist, base>>

complete_task(task_id) ==
    \E r \in {ReadTasks(filesystem)} :
        /\ IF r.raised \/ ~Iterable(r.val) THEN Raise("complete_task", task_id, r)
           ELSE \E i \in {FirstHit(Items(r.val), PyInt(task_id))} :
                IF i = 0
                THEN /\ outcome' = Said("complete_task", task_id, "not_found")
                     /\ calls' = <<"read_file">>
                     /\ listing' = <<>>
                     /\ filesystem' = r.fs
                ELSE IF ~Has(Items(r.val)[i], K_id)
                THEN Raise("complete_task", task_id, r)
                ELSE /\ filesystem' = WriteTasks(r.fs, PyList(MarkCompleted(r.val.v, i)))
                     /\ outcome' = Said("complete_task", task_id, "completed")
                     /\ calls' = <<"read_file", "write_file">>
                     /\ listing' = <<>>
        /\ UNCHANGED <<coll, loaded, session, pc, local, report, hist, base>>

delete_task(task_id) ==
    \E r \in {ReadTasks(filesystem)} :
        /\ IF \/ r.raised \/ ~Iterable(r.val)
              \/ \E i \in 1..Len(Items(r.val)) : ~Has(Items(r.val)[i], K_id)
           THEN Raise("delete_task", task_id, r)
           ELSE /\ filesystem' = WriteTasks(r.fs,
                        PyList(Without(Items(r.val), PyInt(task_id))))
                /\ outcome' = Said("delete_task", task_id, "deleted")
                /\ calls' = <<"read_file", "write_file">>
                /\ listing' = <<>>
        /\ UNCHANGED <<coll, loaded, session, pc, local, report, hist, base>>

NoFiles == [p \in {} |-> <<>>]
NotLoaded == [by |-> "none", response |-> [kind |-> "none"], raised |-> FALSE,
              val |-> PyNone]

\* SimpleTaskManager.__init__ over a fresh SimulatedMCPServer
Init ==
    /\ filesystem = NoFiles
    /\ outcome = Said("__init__", 0, "initialized")
    /\ calls = <<>>
    /\ listing = <<>>
    /\ coll = PyNone
    /\ loaded = NotLoaded
    /\ session = FALSE
    /\ pc = <<>>
    /\ local = <<>>
    /\ report = <<>>
    /\ hist = <<>>
    /\ base = PyNone

Next ==
    \/ \E a \in AddArguments : add_task(a[1], a[2])
    \/ list_tasks
    \/ \E task_id \in TaskIds : complete_task(task_id)
    \/ \E task_id \in TaskIds : delete_task(task_id)

\* the operations of one SimpleTaskManager, called one after another
Spec == Init /\ [][Next]_vars

----------------------------------------------------------------------------
(* TaskManager: the same store over an MCP client session.  What the session
   answers is the server's choice; the model lets it answer as a file server
   does, and, where failures are looked at, fail as well. *)

NetPath == "/tmp/tasks.json"

\* the text an MCP error result carries: not a JSON document
ErrorText == <<"E", "r", "r", "o", "r", ":", " ", "E", "N", "O", "E", "N", "T">>

\* what session.call_tool("read_file", ...) can give: a result with the
\* file's text, or for a missing file the error's text; when the session may
\* fail, also a result without content, or an exception
ReadResponses(fs, failing) ==
    {IF NetPath \in DOMAIN fs
     THEN [kind |-> "content", text |-> fs[NetPath]]
     ELSE [kind |-> "content", text |-> ErrorText]}
    \cup (IF failing
          THEN {[kind |-> "content", text |-> ErrorText],
                [kind |-> "empty", text |-> <<>>],
                [kind |-> "raise", text |-> <<>>]}
          ELSE {})

\* TaskManager._read_tasks() on a response of the session
NetReadTasks(response) ==
    LET content == IF response.kind = "content" THEN response.text ELSE EmptyListText
        r       == Loads(content)
    IN  IF response.kind = "raise" \/ ~r.ok
        THEN [raised |-> FALSE, val |-> PyList(<<>>)]
        ELSE [raised |-> FALSE, val |-> r.val]

\* TaskManager._write_tasks(tasks): the server's files afterwards
NetWriteTasks(fs, tasks) ==
    [p \in DOMAIN fs \cup {NetPath} |-> IF p = NetPath THEN Dumps(tasks) ELSE fs[p]]

----------------------------------------------------------------------------
(* _write_tasks and _read_tasks on their own: a collection is saved, then
   loaded *)

\* the longest collection saved
MaxLen == 2

Medium == <<"m", "e", "d", "i", "u", "m">>

\* task records whose texts and ids exercise every branch of the encoder
SavedTasks ==
    { MkTask(1, <<"a">>, Medium, FALSE),
      MkTask(-12, <<>>, <<>>, TRUE),
      MkTask(305, <<"\"", "\\", "n", "\n", "\t", "/", "u00e9">>, <<"h", "i", "g", "h">>, FALSE),
      MkTask(0, <<"\\", "u", "0", "0", "4", "1", "\\">>, <<"u0001", "u0008", " ">>, TRUE) }

Collections == UNION {[1..k -> SavedTasks] : k \in 0..MaxLen}

\* SimpleTaskManager._write_tasks(coll)
SaveSimple ==
    /\ filesystem' = WriteTasks(filesystem, coll)
    /\ UNCHANGED <<outcome, calls, listing, coll, loaded, session, pc, local,
                   report, hist, base>>

\* SimpleTaskManager._read_tasks()
LoadSimple ==
    \E r \in {ReadTasks(filesystem)} :
        /\ loaded' = [by |-> "simple", response |-> r.response,
                      raised |-> r.raised, val |-> r.val]
        /\ filesystem' = r.fs
        /\ UNCHANGED <<outcome, calls, listing, coll, session, pc, local, report,
                       hist, base>>

\* TaskManager._write_tasks(coll)
SaveNet ==
    /\ filesystem' = NetWriteTasks(filesystem, coll)
    /\ UNCHANGED <<outcome, calls, listing, coll, loaded, session, pc, local,
                   report, hist, base>>

\* TaskManager._read_tasks(), the session failing or not
LoadNet(failing) ==
    \E response \in ReadResponses(filesystem, failing) :
        \E r \in {NetReadTasks(response)} :
            /\ loaded' = [by |-> "net", response |-> response,
                          raised |-> r.raised, val |-> r.val]
            /\ UNCHANGED <<filesystem, outcome, calls, listing, coll, session, pc,
                           local, report, hist, base>>

InitRoundTrip ==
    /\ filesystem = NoFiles
    /\ outcome = Said("__init__", 0, "initialized")
    /\ calls = <<>>
    /\ listing = <<>>
    /\ coll \in {PyList(c) : c \in Collections}
    /\ loaded = NotLoaded
    /\ session = TRUE
    /\ pc = <<>>
    /\ local = <<>>
    /\ report = <<>>
    /\ hist = <<>>
    /\ base = PyNone

NextRoundTrip ==
    \/ SaveSimple
    \/ tasks_file \in DOMAIN filesystem /\ LoadSimple
    \/ SaveNet
    \/ NetPath \in DOMAIN filesystem /\ LoadNet(FALSE)

\* any collection saved by either manager, then loaded by the same manager
SpecRoundTrip == InitRoundTrip /\ [][NextRoundTrip]_vars

----------------------------------------------------------------------------
(* _read_tasks on contents the managers did not write *)

\* texts a tasks file can hold: not JSON, JSON that is no array, arrays
RawContents ==
    { <<"n", "o", "t", " ", "j", "s", "o", "n">>,
      <<>>,
      <<"[", "1", ",", "]">>,
      <<"5">>,
      <<"{", "}">>,
      <<"n", "u", "l", "l">>,
      <<"[", "]">>,
      <<" ", "[", "1", ",", " ", "\"", "a", "\"", "]", "\n">> }

\* write_file called on the provider with any text
RawWrite(path, content) ==
    /\ filesystem' = CallTool(filesystem, "write_file",
                              [path |-> path, content |-> content]).fs
    /\ UNCHANGED <<outcome, calls, listing, coll, loaded, session, pc, local,
                   report, hist, base>>

NextRaw ==
    \/ \E path \in {tasks_file, NetPath}, content \in RawContents :
            RawWrite(path, content)
    \/ LoadSimple
    \/ LoadNet(TRUE)

\* both managers' _read_tasks over files of any content
SpecRaw == Init /\ [][NextRaw]_vars

----------------------------------------------------------------------------
(* The persisted collection, as the claims read it *)

\* the fields of a task record
Fields(task) ==
    [id |-> Get(task, K_id).v,
     description |-> Get(task, K_description).v,
     priority |-> Get(task, K_priority).v,
     completed |-> Get(task, K_completed).v]

\* the tasks a filesystem persists, in collection order
TasksIn(fs) ==
    LET p == ReadTasks(fs).val.v
    IN  [i \in 1..Len(p) |-> Fields(p[i])]

Tasks == TasksIn(filesystem)

HasId(ts, task_id) == \E i \in 1..Len(ts) : ts[i].id = task_id

----------------------------------------------------------------------------
(* Claims about the operations of SimpleTaskManager, under Spec *)

\* C1: in every state reachable from the empty store by add, complete and
\* delete, the ids of the persisted tasks are pairwise distinct.
C1_IdsUnique ==
    LET p == Tasks
    IN  \A i, j \in 1..Len(p) : i # j => p[i].id # p[j].id

\* C2: a task is created with completed = false, becomes completed = true
\* only through complete_task, and never reverts to false while its record
\* stays in the collection: add keeps the old records and appends a pending
\* one, delete keeps the records it leaves as they were, and every other
\* operation keeps each position's record, its flag changing only from false
\* to true and only in a complete_task.
C2_Step ==
    LET p == Tasks
        q == TasksIn(filesystem')
        kept(t) == t.id # outcome'.arg
    IN  CASE outcome'.op = "add_task" ->
                /\ Len(q) = Len(p) + 1
                /\ \A i \in 1..Len(p) : q[i] = p[i]
                /\ q[Len(q)].completed = FALSE
          [] outcome'.op = "delete_task" ->
                q = SelectSeq(p, kept)
          [] OTHER ->
                /\ Len(q) = Len(p)
                /\ \A i \in 1..Len(p) :
                      /\ p[i].completed => q[i].completed
                      /\ q[i].completed # p[i].completed
                            => outcome'.op = "complete_task"

\* C2 (completion is monotonic): every step of the store satisfies C2_Step
C2_CompletionMonotonic == [][C2_Step]_vars

\* C2 witness: complete_task has run on a collection all of whose tasks are
\* now completed, after a second task was added
C2_Witness ==
    /\ outcome.op = "complete_task" /\ outcome.msg = "completed"
    /\ Len(Tasks) = 2
    /\ \A i \in 1..Len(Tasks) : Tasks[i].completed

\* C4: add_task on a collection of size N appends exactly one task, at the
\* end, with id N + 1, the description and priority given and completed =
\* false, whatever ids are present.
C4_Step ==
    LET p == Tasks
        q == TasksIn(filesystem')
    IN  outcome'.op = "add_task" =>
            /\ outcome'.msg = "added"
            /\ q = Append(p, [id |-> Len(p) + 1,
                              description |-> outcome'.arg[1],
                              priority |-> outcome'.arg[2],
                              completed |-> FALSE])

\* C4 (id assignment): every step of the store satisfies C4_Step
C4_IdIsSizePlusOne == [][C4_Step]_vars

\* C4 witness: after add, add, delete(1), the next add has assigned id 2
\* beside the live task with id 2
C4_Witness ==
    /\ outcome.op = "add_task"
    /\ Len(Tasks) = 2 /\ Tasks[1].id = 2 /\ Tasks[2].id = 2

\* C5: delete_task with an id no task has leaves the collection element-wise
\* equal and raises nothing.
C5_Step ==
    LET p == Tasks
        q == TasksIn(filesystem')
    IN  outcome'.op = "delete_task" /\ ~HasId(p, outcome'.arg) =>
            /\ outcome'.msg = "deleted"
            /\ q = p

\* C5 (idempotent delete): every step of the store satisfies C5_Step
C5_DeleteAbsentId == [][C5_Step]_vars

\* C5 witness: delete_task ran with an id that is never assigned, on a full
\* collection
C5_Witness ==
    /\ outcome.op = "delete_task" /\ outcome.arg = MaxTasks + 1
    /\ Len(Tasks) = MaxTasks

\* C6: complete_task with an id no task has reports not-found, raises
\* nothing, issues no write_file call and leaves the persisted state as it
\* was.
C6_Step ==
    outcome'.op = "complete_task" /\ ~HasId(Tasks, outcome'.arg) =>
        /\ outcome'.msg = "not_found"
        /\ calls' = <<"read_file">>
        /\ filesystem' = filesystem

\* C6 (complete reports not-found): every step of the store satisfies C6_Step
C6_CompleteAbsentId == [][C6_Step]_vars

\* C6 witness: complete_task reported not-found on a non-empty collection
C6_Witness ==
    /\ outcome.op = "complete_task" /\ outcome.msg = "not_found"
    /\ Len(Tasks) > 0

\* C8: while nothing has been written to the tasks path, read_file answers
\* with the content "[]" and creates no entry, _read_tasks returns the empty
\* collection, and a list_tasks reports no tasks and creates no entry.
C8_State ==
    tasks_file \notin DOMAIN filesystem =>
        /\ CallTool(filesystem, "read_file", [path |-> tasks_file])
              = [fs |-> filesystem, result |-> [content |-> <<"[", "]">>]]
        /\ ~ReadTasks(filesystem).raised
        /\ ReadTasks(filesystem).val = PyList(<<>>)
C8_Step ==
    tasks_file \notin DOMAIN filesystem /\ outcome'.op = "list_tasks" =>
        /\ outcome'.msg = "no_tasks"
        /\ listing' = <<>>
        /\ filesystem' = filesystem

\* C8 (empty on absence): C8_State holds in every state and C8_Step of every
\* step
C8_EmptyOnAbsence == [](C8_State) /\ [][C8_Step]_vars

\* C8 witness: list_tasks has run and the tasks path still has no entry
C8_Witness ==
    /\ outcome.op = "list_tasks"
    /\ tasks_file \notin DOMAIN filesystem

\* C10: complete_task with an id some task has sets completed = true on the
\* first such task only and writes the collection back once; every other
\* task, a later one with the same id included, keeps its fields, and length
\* and order stay.
C10_Step ==
    LET p == Tasks
        q == TasksIn(filesystem')
        first == CHOOSE i \in 1..Len(p) :
                    /\ p[i].id = outcome'.arg
                    /\ \A j \in 1..(i - 1) : p[j].id # outcome'.arg
    IN  outcome'.op = "complete_task" /\ HasId(p, outcome'.arg) =>
            /\ outcome'.msg = "completed"
            /\ calls' = <<"read_file", "write_file">>
            /\ q = [p EXCEPT ![first].completed = TRUE]

\* C10 (complete marks the first match only): every step of the store
\* satisfies C10_Step
C10_CompletesFirstMatchOnly == [][C10_Step]_vars

\* C10 witness: complete_task(2) ran on two tasks that both have id 2; the
\* first is completed, the second still pending
C10_Witness ==
    /\ outcome = Said("complete_task", 2, "completed")
    /\ Len(Tasks) = 2 /\ Tasks[1].id = 2 /\ Tasks[2].id = 2
    /\ Tasks[1].completed /\ ~Tasks[2].completed

----------------------------------------------------------------------------
(* Two callers of TaskManager.add_task on one tasks file.  A call gives up
   control at each await: once for the read, once for the write. *)

Callers == {1, 2}

\* connect_to_server()
connect_to_server ==
    /\ ~session
    /\ session' = TRUE
    /\ UNCHANGED <<filesystem, outcome, calls, listing, coll, loaded, pc, local,
                   report, hist, base>>

\* add_task up to its second await: the session check, _read_tasks, and the
\* append to the list read
NetAddRead(c, description, priority) ==
    /\ pc[c] = "idle"
    /\ IF ~session
       THEN /\ report' = [report EXCEPT ![c] = "not_connected"]
            /\ UNCHANGED <<pc, local, hist, base>>
       ELSE \E response \in ReadResponses(filesystem, FALSE) :
            \E r \in {NetReadTasks(response)} :
                /\ r.val.t = "list" /\ Len(r.val.v) < MaxTasks
                /\ local' = [local EXCEPT ![c] =
                        PyList(Append(r.val.v, NewTask(r.val, description, priority)))]
                /\ pc' = [pc EXCEPT ![c] = "write"]
                /\ IF \A d \in Callers : pc[d] = "idle"
                   THEN hist' = << <<"read_file", c>> >> /\ base' = r.val
                   ELSE hist' = Append(hist, <<"read_file", c>>) /\ UNCHANGED base
                /\ UNCHANGED report
    /\ UNCHANGED <<filesystem, outcome, calls, listing, coll, loaded, session>>

\* Variant of NetAddWrite: the file is read again and the new task appended
\* to what it holds now
NetAddWriteMerging(c) ==
    /\ pc[c] = "write"
    /\ \E response \in ReadResponses(filesystem, FALSE) :
            filesystem' = NetWriteTasks(filesystem,
                PyList(Append(NetReadTasks(response).val.v,
                              local[c].v[Len(local[c].v)])))
    /\ report' = [report EXCEPT ![c] = "added"]
    /\ pc' = [pc EXCEPT ![c] = "idle"]
    /\ hist' = Append(hist, <<"write_file", c>>)
    /\ UNCHANGED <<outcome, calls, listing, coll, loaded, session, local, base>>

\* add_task from its second await: _write_tasks of the list held, and the
\* report
NetAddWrite(c) ==
    /\ pc[c] = "write"
    /\ filesystem' = NetWriteTasks(filesystem, local[c])
    /\ report' = [report EXCEPT ![c] = "added"]
    /\ pc' = [pc EXCEPT ![c] = "idle"]
    /\ hist' = Append(hist, <<"write_file", c>>)
    /\ UNCHANGED <<outcome, calls, listing, coll, loaded, session, local, base>>

InitRace ==
    /\ filesystem = NoFiles
    /\ outcome = Said("__init__", 0, "initialized")
    /\ calls = <<>>
    /\ listing = <<>>
    /\ coll = PyNone
    /\ loaded = NotLoaded
    /\ session = FALSE
    /\ pc = [c \in Callers |-> "idle"]
    /\ local = [c \in Callers |-> PyList(<<>>)]
    /\ report = [c \in Callers |-> "none"]
    /\ hist = <<>>
    /\ base = PyList(<<>>)

NextRace ==
    \/ connect_to_server
    \/ \E c \in Callers, a \in AddArguments : NetAddRead(c, a[1], a[2])
    \/ \E c \in Callers : NetAddWrite(c)

\* two add_task calls in flight at once, in any interleaving of their awaits
SpecRace == InitRace /\ [][NextRace]_vars

----------------------------------------------------------------------------
(* Claims about _write_tasks and _read_tasks *)

IsEmptyList(x) == x.t = "list" /\ x.v = <<>>

\* C3: a collection written by _write_tasks and then read by _read_tasks,
\* with no write in between, comes back equal: same length and order, same
\* id, description, priority and completed flag at every position
\* (SpecRoundTrip, both managers).
C3_RoundTrip ==
    loaded.by # "none" =>
        /\ ~loaded.raised
        /\ loaded.val.t = "list"
        /\ Len(loaded.val.v) = Len(coll.v)
        /\ \A i \in 1..Len(coll.v) : Fields(loaded.val.v[i]) = Fields(coll.v[i])
        /\ loaded.val = coll

\* C3 witness: a collection of the longest length, holding a description
\* with a quote, a backslash and a newline, was saved and loaded
C3_Witness ==
    /\ loaded.by = "simple"
    /\ Len(coll.v) = MaxLen
    /\ \E i \in 1..Len(coll.v) :
          LET d == Fields(coll.v[i]).description
          IN  \E k \in 1..Len(d) : d[k] = "\\"
    /\ loaded.val = coll

\* what _read_tasks was given is an error, or no JSON array
NotAnArray(response) ==
    \/ response.kind # "content"
    \/ ~Loads(response.text).ok
    \/ Loads(response.text).val.t # "list"

\* C7: when the content read_file returns is not a valid JSON array, or the
\* provider returns an error instead of content, _read_tasks returns the
\* empty collection and raises nothing, in both managers (SpecRaw).
C7_FailOpen ==
    loaded.by # "none" /\ NotAnArray(loaded.response) =>
        /\ ~loaded.raised
        /\ IsEmptyList(loaded.val)

----------------------------------------------------------------------------
(* Claim about two racing callers, under SpecRace *)

\* the collection the server's tasks file holds
NetPersisted ==
    NetReadTasks(CHOOSE response \in ReadResponses(filesystem, FALSE) : TRUE).val

\* both callers read before either wrote, and both have written
BothReadThenBothWrote ==
    /\ Len(hist) = 4
    /\ hist[1][1] = "read_file" /\ hist[2][1] = "read_file"
    /\ hist[3][1] = "write_file" /\ hist[4][1] = "write_file"

\* C9: when both callers' reads come before either write, the file ends up
\* with the later writer's list, which is the collection both read plus the
\* later writer's task only; the earlier writer's task is gone, and both
\* calls report success.
C9_LostUpdate ==
    BothReadThenBothWrote =>
        LET early == hist[3][2]
            late  == hist[4][2]
            mine(c) == local[c].v[Len(local[c].v)]
        IN  /\ early # late
            /\ NetPersisted = local[late]
            /\ NetPersisted.v = Append(base.v, mine(late))
            /\ report[early] = "added" /\ report[late] = "added"

\* C9 witness: the race has happened with two different tasks, and the
\* earlier writer's task is not in the file
C9_Witness ==
    /\ BothReadThenBothWrote
    /\ LET mine(c) == local[c].v[Len(local[c].v)]
       IN  /\ mine(hist[3][2]) # mine(hist[4][2])
           /\ \A i \in 1..Len(NetPersisted.v) : NetPersisted.v[i] # mine(hist[3][2])

====
